---- MODULE Spec2Model ----
(***************************************************************************)
(* A model of the procedural generation core of skyline:                   *)
(*   src/src/util.rs     sample_poisson_disc_2d, filled_circle             *)
(*   src/src/skyline.rs  Building, RandomBuildingGenerator, skyline        *)
(* Three specifications share the variables:                               *)
(*   SpecPD  one call of sample_poisson_disc_2d                            *)
(*   SpecFC  one call of filled_circle, drained by its consumer            *)
(*   Spec    one skyline() stream and its consumer                         *)
(***************************************************************************)
EXTENDS Integers, Sequences, FiniteSets, TLC

\* ------------------------------------------------------------------ bounds
\* Largest small min_distance drawn for a sampler call.
MaxDist == 2
\* Largest side of a small sampling domain.
MaxSide == 3
\* Largest area of a small sampling domain.
MaxArea == 4

\* Largest area of a sampling domain in the termination check.
LiveArea == 2

\* ----------------------------------------------------- program constants
MAX_TEST_SAMPLES == 30
I32Max == 2147483647
I32Min == (-I32Max) - 1
\* i32::MAX as u32 / 2
I32MaxHalf == 1073741823

Abs(n) == IF n < 0 THEN -n ELSE n

\* --------------------------------------------------------------- variables
VARIABLES
    pd_pc,          \* "idle" | "call" | "loop" | "try" | "returned" | "panic"
    min_distance,   \* argument min_distance
    pd_width,       \* argument width
    pd_height,      \* argument height
    samples,        \* Vec<(u32, u32)>
    active_list,    \* Vec<usize>, indices into samples (from 0)
    center_index,   \* index into active_list (from 0) of this round's center
    tries,          \* iterations of `for _ in 0..MAX_TEST_SAMPLES` begun
    verdict,        \* what became of the last candidate of the round under way
    truncated       \* a push beyond the model's list capacity was dropped

pd_vars == <<pd_pc, min_distance, pd_width, pd_height, samples, active_list,
             center_index, tries, verdict, truncated>>

VARIABLES
    fc_pc,      \* "idle" | "call" | "iter" | "done" | "panic"
    center,     \* argument center: (i32, i32)
    radius,     \* argument radius: u32
    fc_x,       \* the element of -radius..=radius the outer range of iproduct! is at
    fc_y,       \* the element the inner range is at
    yielded     \* the points the iterator has yielded, in order

fc_vars == <<fc_pc, center, radius, fc_x, fc_y, yielded>>

VARIABLES
    pc,                  \* "new" | "idle" | "pull" | "width" | "windows" | "panic"
    constructed,         \* skyline() has returned its iterator
    prefetch,            \* this itertools fills the window buffer in tuple_windows()
    height_range,        \* <<start, end>> of a Range<u32>
    width_range,
    max_windows,
    min_window_distance,
    previous_height,     \* -1 before RandomBuildingGenerator::new
    height,              \* the local `height` of RandomBuildingGenerator::next, 0 outside it
    building,            \* the Building generated last
    columns,             \* the columns of `building` that flatten has yet to yield
    seeded,              \* iter::once(vec![]) has yielded
    last,                \* the window buffer of tuple_windows: the newest items, at most 3
    \* history, recorded for the first `recorded` underlying columns
    recorded,            \* how many underlying columns the history records
    U,                   \* the underlying columns, the leading empty one first
    emitted,             \* the indices in U of the columns the stream emitted
    out,                 \* the columns the stream emitted, in order
    origin,              \* for each column of U: <<col, width of its building, whether
                         \* the building generated just before it had a column>>
    nbuilt,              \* buildings generated, counted up to 2
    prior_height,        \* the height of the building before `building`, -1 if none
    prior_width          \* its width, -1 if none

sky_vars == <<pc, constructed, prefetch, height_range, width_range, max_windows,
              min_window_distance, previous_height, height, building, columns, seeded, last,
              recorded, U, emitted, out, origin, nbuilt, prior_height,
                   prior_width>>

vars == <<pd_vars, fc_vars, sky_vars>>

\* ------------------------------------------------- f64 arithmetic (util.rs)
\* Naturals beyond the checker's machine integers are sequences of limbs,
\* least significant first, without leading zero limbs; zero is << >>.
Base == 32768
LimbBits == 15

RECURSIVE FromInt(_)
FromInt(n) == IF n = 0 THEN << >> ELSE <<n % Base>> \o FromInt(n \div Base)

RECURSIVE Norm(_)
Norm(a) ==
    IF a = << >> THEN << >>
    ELSE IF a[Len(a)] = 0 THEN Norm(SubSeq(a, 1, Len(a) - 1))
    ELSE a

RECURSIVE AddC(_, _, _)
AddC(a, b, c) ==
    IF a = << >> /\ b = << >> THEN (IF c = 0 THEN << >> ELSE <<c>>)
    ELSE LET x == IF a = << >> THEN 0 ELSE Head(a)
             y == IF b = << >> THEN 0 ELSE Head(b)
             s == x + y + c
         IN  <<s % Base>> \o AddC(IF a = << >> THEN a ELSE Tail(a),
                                  IF b = << >> THEN b ELSE Tail(b),
                                  s \div Base)

BigAdd(a, b) == AddC(a, b, 0)

\* a - b for a >= b
RECURSIVE SubC(_, _, _)
SubC(a, b, c) ==
    IF a = << >> THEN << >>
    ELSE LET y == IF b = << >> THEN 0 ELSE Head(b)
             d == Head(a) - y - c
         IN  <<IF d < 0 THEN d + Base ELSE d>>
                 \o SubC(Tail(a), IF b = << >> THEN b ELSE Tail(b),
                         IF d < 0 THEN 1 ELSE 0)

BigSub(a, b) == Norm(SubC(a, b, 0))

RECURSIVE LessFrom(_, _, _)
LessFrom(a, b, i) ==
    IF i = 0 THEN FALSE
    ELSE IF a[i] # b[i] THEN a[i] < b[i]
    ELSE LessFrom(a, b, i - 1)

BigLess(a, b) ==
    IF Len(a) # Len(b) THEN Len(a) < Len(b) ELSE LessFrom(a, b, Len(a))

RECURSIVE MulLimb(_, _, _)
MulLimb(a, d, c) ==
    IF a = << >> THEN (IF c = 0 THEN << >> ELSE <<c>>)
    ELSE LET p == Head(a) * d + c
         IN  <<p % Base>> \o MulLimb(Tail(a), d, p \div Base)

RECURSIVE BigMul(_, _)
BigMul(a, b) ==
    IF b = << >> \/ a = << >> THEN << >>
    ELSE BigAdd(MulLimb(a, Head(b), 0),
                LET r == BigMul(a, Tail(b))
                IN  IF r = << >> THEN r ELSE <<0>> \o r)

RECURSIVE Pow2(_)
Pow2(k) == IF k = 0 THEN 1 ELSE 2 * Pow2(k - 1)

RECURSIVE IntBits(_)
IntBits(n) == IF n = 0 THEN 0 ELSE 1 + IntBits(n \div 2)

BitLen(a) == IF a = << >> THEN 0 ELSE LimbBits * (Len(a) - 1) + IntBits(a[Len(a)])

\* The f64 nearest to the natural a (ties to even): 53 significant bits.
\* Here a < 2^64, so at most 11 low bits are rounded away, all in limb 1.
RoundF64(a) ==
    LET s == BitLen(a) - 53
    IN  IF s <= 0 THEN a
        ELSE LET unit == Pow2(s)
                 r    == a[1] % unit
                 down == BigSub(a, FromInt(r))
                 odd  == (down[1] \div unit) % 2 = 1
             IN  IF 2 * r > unit \/ (2 * r = unit /\ odd)
                 THEN BigAdd(down, FromInt(unit))
                 ELSE down

\* (d as f64).powi(2) for an integer d
SquareF64(d) == RoundF64(BigMul(FromInt(Abs(d)), FromInt(Abs(d))))

\* sqrt(s) >= m as f64, for the f64 s (a natural) and an integer m, 0 <= m < 2^31.
\* sqrt is correctly rounded: its result is >= m exactly when the real root lies
\* above the midpoint of m and the f64 before it, m - 2^-(k+1), and since s and m
\* are integers that is (m^2 - s) * 2^k < m, with 2^-k the spacing of f64 below m.
SqrtGE(s, m) ==
    LET m2 == BigMul(FromInt(m), FromInt(m))
    IN  IF ~BigLess(s, m2) THEN TRUE
        ELSE LET e == IntBits(m) - 1
                 k == IF m = Pow2(e) THEN 53 - e ELSE 52 - e
                 g == BigSub(m2, s)
             IN  /\ k < 31
                 /\ Len(g) = 1
                 /\ g[1] < Pow2(31 - k)
                 /\ g[1] * Pow2(k) < m

\* (dx^2 + dy^2).sqrt() >= md as f64 in f64 arithmetic, for naturals dx, dy, md
DistanceF64(dx, dy, md) ==
    IF dx < Base /\ dy < Base /\ md < Base
    THEN \* every value is an integer below 2^53 and is exact, the root included
         dx * dx + dy * dy >= md * md
    ELSE SqrtGE(RoundF64(BigAdd(SquareF64(dx), SquareF64(dy))), md)

\* --------------------------------------- sample_poisson_disc_2d (util.rs)
\* Capacity of the modelled sample list: one more than any small domain holds.
MaxSamples == MaxArea + 1

\* Domains and distances whose size needs the full integer width:
\* <<min_distance, width, height>>.
BigParams ==
    { <<I32MaxHalf + 1, 1, 1>>,
      <<I32MaxHalf, I32Max, 1>>,
      <<67174417, 46905709, 48085933>> }

BigOffsets ==
    { <<46905708, 48085932>>, <<67174417, 0>>, <<0, 67174417>>,
      <<-67174417, 0>>, <<I32MaxHalf, 0>>, <<-I32MaxHalf, 0>>,
      <<I32Max - 1, 0>>, <<0, I32MaxHalf>>, <<1 - I32Max, 0>> }

SmallParams ==
    { p \in (0..MaxDist) \X (0..MaxSide) \X (0..MaxSide) : p[2] * p[3] <= MaxArea }

PDParams == SmallParams \cup BigParams

\* The values rng.gen_range(0..n) is drawn from: all of a small range, the two
\* ends of a large one. An empty range has none (gen_range panics).
GenRange(n) == IF n <= MaxArea THEN 0..(n - 1) ELSE {0, n - 1}

SumSq(a, b) == BigAdd(BigMul(FromInt(a), FromInt(a)), BigMul(FromInt(b), FromInt(b)))

\* (x, y) = ((radius * angle.cos()) as i32, (radius * angle.sin()) as i32) for
\* some radius in [md, 2 md] and some angle: the cast truncates toward zero, so
\* the cell [|x|, |x|+1) x [|y|, |y|+1) meets the annulus md <= r <= 2 md.
CanDraw(x, y, md) ==
    /\ ~BigLess(SumSq(2 * md, 0), SumSq(Abs(x), Abs(y)))
    /\ BigLess(SumSq(md, 0), SumSq(Abs(x) + 1, Abs(y) + 1))

\* Every <<md, offset>> of the model the random source can draw, enumerated once.
Drawable ==
    { t : t \in { u \in ((0..MaxDist) \X (((-2 * MaxDist)..(2 * MaxDist))
                                         \X ((-2 * MaxDist)..(2 * MaxDist))))
                         \cup ({ p[1] : p \in { q \in BigParams : q[1] <= I32MaxHalf } }
                                   \X BigOffsets) :
                     CanDraw(u[2][1], u[2][2], u[1]) } }

Offsets(md) == { t[2] : t \in { u \in Drawable : u[1] = md } }

\* i32::checked_add(a, b) is None
AddOverflows(a, b) ==
    \/ b > 0 /\ a > I32Max - b
    \/ b < 0 /\ a < I32Min - b

\* distance >= min_distance as f64, util.rs:80-83
DistanceGE(sample, x, y, md) == DistanceF64(Abs(sample[1] - x), Abs(sample[2] - y), md)

\* samples.iter().all(|&sample| distance >= min_distance as f64), util.rs:79-84
SampleIsFarEnough(ss, x, y, md) ==
    \A i \in 1..Len(ss) : DistanceGE(ss[i], x, y, md)

\* Judge without the test `x >= width || y >= height` of util.rs:75.
JudgeNoUpperBound(ss, c, off, md, w, h) ==
    LET x == c[1] + off[1]
        y == c[2] + off[2]
    IN  IF AddOverflows(c[1], off[1]) \/ AddOverflows(c[2], off[2])
        THEN [verdict |-> "overflow", point |-> <<0, 0>>]
        ELSE IF x < 0 \/ y < 0 THEN [verdict |-> "negative", point |-> <<0, 0>>]
        ELSE IF SampleIsFarEnough(ss, x, y, md)
             THEN [verdict |-> "accepted", point |-> <<x, y>>]
             ELSE [verdict |-> "too_close", point |-> <<0, 0>>]

\* One candidate of the inner loop, util.rs:56-86: what becomes of the offset
\* `off` drawn around the sample `c`.
Judge(ss, c, off, md, w, h) ==
    LET x == c[1] + off[1]
        y == c[2] + off[2]
    IN  IF AddOverflows(c[1], off[1]) \/ AddOverflows(c[2], off[2])
        THEN [verdict |-> "overflow", point |-> <<0, 0>>]
        ELSE IF x < 0 \/ y < 0 THEN [verdict |-> "negative", point |-> <<0, 0>>]
        ELSE IF x >= w \/ y >= h THEN [verdict |-> "outside", point |-> <<0, 0>>]
        ELSE IF SampleIsFarEnough(ss, x, y, md)
             THEN [verdict |-> "accepted", point |-> <<x, y>>]
             ELSE [verdict |-> "too_close", point |-> <<0, 0>>]

\* The outcomes of the candidates the random source can draw around c.
Candidates(ss, c, md, w, h) == { Judge(ss, c, off, md, w, h) : off \in Offsets(md) }

\* SwapRemove taking the last element off, whatever the index.
PopLast(v, i) == [j \in 1..(Len(v) - 1) |-> v[j]]

\* Vec::swap_remove(i), i from 0
SwapRemove(v, i) ==
    LET n == Len(v)
    IN  [j \in 1..(n - 1) |-> IF j = i + 1 THEN v[n] ELSE v[j]]

\* The asserts of util.rs:31-33.
EntryAsserts(md, w, h) == md <= I32MaxHalf /\ w <= I32Max /\ h <= I32Max

\* util.rs:31-42: asserts, then the seed sample
PDEnter ==
    /\ pd_pc = "call"
    /\ IF ~EntryAsserts(min_distance, pd_width, pd_height)
          \/ GenRange(pd_width) = {} \/ GenRange(pd_height) = {}
       THEN /\ pd_pc' = "panic"
            /\ UNCHANGED <<samples, active_list>>
       ELSE /\ \E sx \in GenRange(pd_width), sy \in GenRange(pd_height) :
                   samples' = <<<<sx, sy>>>>
            /\ active_list' = <<0>>
            /\ pd_pc' = "loop"
    /\ UNCHANGED <<min_distance, pd_width, pd_height, center_index, tries,
                   verdict, truncated>>
    /\ UNCHANGED <<fc_vars, sky_vars>>

\* util.rs:47-51: the while loop's test, then the center of this round
PickCenter ==
    /\ pd_pc = "loop"
    /\ active_list # << >>
    /\ \E ci \in GenRange(Len(active_list)) : center_index' = ci
    /\ tries' = 0
    /\ verdict' = "none"
    /\ pd_pc' = "try"
    /\ UNCHANGED <<min_distance, pd_width, pd_height, samples, active_list,
                   truncated>>
    /\ UNCHANGED <<fc_vars, sky_vars>>

\* util.rs:52-92: one iteration of the inner loop. A rejected candidate
\* continues; an accepted one is pushed and breaks, and found skips the removal.
Attempt ==
    /\ pd_pc = "try"
    /\ tries < MAX_TEST_SAMPLES
    /\ \E j \in Candidates(samples, samples[active_list[center_index + 1] + 1],
                             min_distance, pd_width, pd_height) :
             /\ verdict' = j.verdict
             /\ IF j.verdict = "accepted"
                THEN /\ IF Len(samples) < MaxSamples
                        THEN /\ active_list' = Append(active_list, Len(samples))
                             /\ samples' = Append(samples, j.point)
                             /\ UNCHANGED truncated
                        ELSE /\ truncated' = TRUE
                             /\ UNCHANGED <<samples, active_list>>
                     /\ tries' = 0
                     /\ center_index' = 0
                     /\ pd_pc' = "loop"
                ELSE /\ tries' = tries + 1
                     /\ UNCHANGED <<samples, active_list, center_index, pd_pc,
                                    truncated>>
    /\ UNCHANGED <<min_distance, pd_width, pd_height>>
    /\ UNCHANGED <<fc_vars, sky_vars>>

\* util.rs:93-95: no candidate of the round was accepted
Exhausted ==
    /\ pd_pc = "try"
    /\ tries = MAX_TEST_SAMPLES
    /\ active_list' = SwapRemove(active_list, center_index)
    /\ tries' = 0
    /\ center_index' = 0
    /\ verdict' = "none"
    /\ pd_pc' = "loop"
    /\ UNCHANGED <<min_distance, pd_width, pd_height, samples, truncated>>
    /\ UNCHANGED <<fc_vars, sky_vars>>

\* util.rs:47,98: the active list is empty, the samples are returned
PDReturn ==
    /\ pd_pc = "loop"
    /\ active_list = << >>
    /\ pd_pc' = "returned"
    /\ UNCHANGED <<min_distance, pd_width, pd_height, samples, active_list,
                   center_index, tries, verdict, truncated>>
    /\ UNCHANGED <<fc_vars, sky_vars>>

PDIdle ==
    /\ samples = << >>
    /\ active_list = << >>
    /\ center_index = 0
    /\ tries = 0
    /\ verdict = "none"
    /\ truncated = FALSE

\* ------------------------------------------------- filled_circle (util.rs)
\* Largest radius whose disc is enumerated.
MaxRadius == 3

Centers ==
    { <<0, 0>>, <<20, 20>>, <<-2, 3>>, <<I32Max, 0>>, <<I32Max - 1, I32Min + 1>>,
      <<0, I32Min>> }

\* 32768 is the least radius the first assert refuses.
Radii == (0..MaxRadius) \cup {Base}

\* The asserts of util.rs:109-115. The first, in f64, is
\* radius <= sqrt(1073741823.5) = 32767.99..., that is radius^2 <= 1073741823.
CircleAsserts(c, r) ==
    /\ r * r <= I32MaxHalf
    /\ c[1] <= I32Max - r
    /\ c[1] >= I32Min + r
    /\ c[2] <= I32Max - r
    /\ c[2] >= I32Min + r

\* InCircle with the circle's border.
InCircleInclusive(x, y, r) == x * x + y * y <= r * r

\* The filter of util.rs:118, in i32 (the first assert keeps it from overflowing).
InCircle(x, y, r) == x * x + y * y < r * r

\* util.rs:107-117: the asserts, then the product iterator at its first element
FCEnter ==
    /\ fc_pc = "call"
    /\ IF CircleAsserts(center, radius)
       THEN /\ fc_pc' = "iter"
            /\ fc_x' = -radius
            /\ fc_y' = -radius
       ELSE /\ fc_pc' = "panic"
            /\ UNCHANGED <<fc_x, fc_y>>
    /\ UNCHANGED <<center, radius, yielded>>
    /\ UNCHANGED <<pd_vars, sky_vars>>

\* util.rs:117-119: the element (fc_x, fc_y) of iproduct!(-radius..=radius,
\* -radius..=radius) goes through the filter and, kept, through the map; the
\* inner range advances first.
FCStep ==
    /\ fc_pc = "iter"
    /\ yielded' = IF InCircle(fc_x, fc_y, radius)
                  THEN Append(yielded, <<fc_x + center[1], fc_y + center[2]>>)
                  ELSE yielded
    /\ IF fc_y < radius
       THEN fc_y' = fc_y + 1 /\ UNCHANGED <<fc_x, fc_pc>>
       ELSE IF fc_x < radius
            THEN fc_x' = fc_x + 1 /\ fc_y' = -radius /\ UNCHANGED fc_pc
            ELSE fc_pc' = "done" /\ UNCHANGED <<fc_x, fc_y>>
    /\ UNCHANGED <<center, radius>>
    /\ UNCHANGED <<pd_vars, sky_vars>>

FCIdle ==
    /\ fc_x = 0
    /\ fc_y = 0
    /\ yielded = << >>

\* ------------------------------------------------------ skyline (skyline.rs)
\* Underlying columns the history of a stream records.
MaxU == 7

\* A Range<u32>, start..end, is <<start, end>>.
RangeIsEmpty(r) == ~(r[1] < r[2])

RangeValues(r) == r[1]..(r[2] - 1)

\* <<height_range, width_range, max_windows, min_window_distance>>
SkyConfigs ==
    { <<<<1, 4>>, <<1, 3>>, 0, 1>>,
      <<<<0, 3>>, <<1, 2>>, 1, 1>>,
      <<<<3, 6>>, <<5, 6>>, 1, 1>>,
      <<<<4, 6>>, <<5, 6>>, 2, 1>>,
      <<<<3, 6>>, <<5, 6>>, 2, 0>>,
      <<<<3, 6>>, <<5, 6>>, 1, I32MaxHalf + 1>>,
      <<<<1, 4>>, <<0, 1>>, 0, 1>>,
      <<<<1, 3>>, <<0, 2>>, 0, 1>>,
      <<<<1, 3>>, <<0, 4>>, 0, 1>>,
      <<<<2, 2>>, <<1, 4>>, 0, 1>>,
      <<<<3, 1>>, <<1, 4>>, 0, 1>>,
      <<<<2, 3>>, <<1, 4>>, 0, 1>>,
      <<<<1, 4>>, <<1, 1>>, 0, 1>>,
      <<<<1, 4>>, <<3, 2>>, 0, 1>>,
      <<<<2, 3>>, <<2, 2>>, 0, 1>> }

NoBuilding == [height |-> 0, width |-> 0, windows |-> << >>]

\* Column without the border of the roof, cells[0] = Pixel::Border.
ColumnNoRoof(b, col) ==
    IF b.height = 0 THEN << >>
    ELSE [row \in 1..b.height |->
            IF \E i \in 1..Len(b.windows) : b.windows[i] = <<col, row - 1>>
            THEN "Window"
            ELSE IF col = 0 \/ col = b.width - 1 THEN "Border"
            ELSE "Background"]

\* Building::iter_columns, skyline.rs:32-55: the column `col` (from 0), top first
Column(b, col) ==
    IF b.height = 0 THEN << >>
    ELSE [row \in 1..b.height |->
            IF \E i \in 1..Len(b.windows) : b.windows[i] = <<col, row - 1>>
            THEN "Window"
            ELSE IF col = 0 \/ col = b.width - 1 THEN "Border"
            ELSE IF row = 1 THEN "Border"
            ELSE "Background"]

\* skyline.rs:50-51: pixels[y] is out of bounds for a window of column `col`
ColumnPanics(b, col) ==
    /\ b.height # 0
    /\ \E i \in 1..Len(b.windows) : b.windows[i][1] = col /\ b.windows[i][2] >= b.height

\* Building::iter_columns, skyline.rs:31-56
IterColumns(b) == [c \in 1..b.width |-> Column(b, c - 1)]

\* NewAsserts without the assert on the size of the height range.
NewAssertsNoSize(hr, wr) ==
    /\ ~RangeIsEmpty(hr)
    /\ ~RangeIsEmpty(wr)

\* The asserts of RandomBuildingGenerator::new, skyline.rs:75-77.
NewAsserts(hr, wr) ==
    /\ ~RangeIsEmpty(hr)
    /\ hr[2] - hr[1] > 1
    /\ ~RangeIsEmpty(wr)

\* Keep with strict comparisons.
KeepStrict(previous, current, next) ==
    Len(current) > Len(previous) /\ Len(current) > Len(next)

\* Keep comparing with the next column only.
KeepIgnoringPrevious(previous, current, next) ==
    Len(current) >= Len(next)

\* Keep comparing with the previous column only.
KeepIgnoringNext(previous, current, next) ==
    Len(current) >= Len(previous)

\* The closure of filter_map, skyline.rs:147-157: Some(current)
Keep(previous, current, next) ==
    IF Len(current) >= Len(previous)
    THEN (IF Len(current) >= Len(next) THEN TRUE ELSE FALSE)
    ELSE FALSE

\* ChooseMultiple taking every element, whatever the amount asked for.
ChooseAll(n, amount) ==
    { pick \in [1..n -> 1..n] :
        \A i \in 1..n : \A j \in 1..n : i # j => pick[i] # pick[j] }

\* slice::choose_multiple(rng, amount) on n elements: min(amount, n) distinct
\* indices (from 1), in any order.
ChooseMultiple(n, amount) ==
    LET k == IF amount < n THEN amount ELSE n
    IN  { pick \in [1..k -> 1..n] :
            \A i \in 1..k : \A j \in 1..k : i # j => pick[i] # pick[j] }

\* Shift leaving the sample where it is.
ShiftNone(p) == p

\* skyline.rs:102: the closure of map, a sample of the inner rectangle becomes
\* a window of the building
Shift(p) == <<p[1] + 2, p[2] + 2>>

\* skyline.rs:135,146: skyline() is called. RandomBuildingGenerator::new runs
\* first, with its asserts. tuple_windows() then either returns at once or
\* (itertools 0.10) first pulls the items that fill its buffer.
Construct ==
    /\ pc = "new"
    /\ IF NewAsserts(height_range, width_range)
       THEN /\ previous_height' = 0
            /\ constructed' = ~prefetch
            /\ pc' = IF prefetch THEN "pull" ELSE "idle"
       ELSE /\ pc' = "panic"
            /\ UNCHANGED <<previous_height, constructed>>
    /\ UNCHANGED <<prefetch, height_range, width_range, max_windows,
                   min_window_distance, height, building, columns, seeded, last,
                   recorded, U, emitted, out, origin, nbuilt, prior_height,
                   prior_width>>
    /\ UNCHANGED <<pd_vars, fc_vars>>

\* main.rs:306: the consumer calls next() on the stream. Where a history is
\* recorded, the consumer stops pulling once the history is full.
Pull ==
    /\ pc = "idle"
    /\ constructed
    /\ recorded = 0 \/ Len(U) < recorded
    /\ pc' = "pull"
    /\ UNCHANGED <<constructed, prefetch, height_range, width_range, max_windows,
                   min_window_distance, previous_height, height, building, columns,
                   seeded, last, recorded, U, emitted, out, origin, nbuilt, prior_height,
                   prior_width>>
    /\ UNCHANGED <<pd_vars, fc_vars>>

\* skyline.rs:146-157: the underlying iterator yields the column c to
\* tuple_windows. The buffer keeps the newest three items. While skyline() is
\* still filling the buffer (itertools 0.10 holds the first item twice and the
\* next one, so two underlying items) nothing is filtered; otherwise a full
\* buffer is a window (previous, current, next), filter_map's closure sees it,
\* and next() returns on Some and pulls again on None.
Deliver(c) ==
    LET win == IF Len(last) = 3 THEN <<last[2], last[3], c>> ELSE Append(last, c)
        rec == Len(U) < recorded
    IN  /\ last' = win
        /\ U' = IF rec THEN Append(U, c) ELSE U
        /\ IF ~constructed
           THEN /\ constructed' = (Len(win) = 2)
                /\ pc' = IF Len(win) = 2 THEN "idle" ELSE "pull"
                /\ UNCHANGED <<emitted, out>>
           ELSE IF Len(win) = 3 /\ Keep(win[1], win[2], win[3])
           THEN /\ pc' = "idle"
                /\ emitted' = IF rec THEN emitted \cup {Len(U)} ELSE emitted
                /\ out' = IF rec THEN Append(out, win[2]) ELSE out
                /\ UNCHANGED constructed
           ELSE /\ pc' = "pull"
                /\ UNCHANGED <<constructed, emitted, out>>

\* DeliverSeed of a stream without iter::once(vec![]): nothing is yielded
\* ahead of the first building.
SkipSeed ==
    /\ pc = "pull"
    /\ ~seeded
    /\ seeded' = TRUE
    /\ UNCHANGED <<pc, constructed, prefetch, height_range, width_range, max_windows,
                   min_window_distance, previous_height, height, building, columns,
                   last, recorded, U, emitted, out, origin, nbuilt, prior_height,
                   prior_width>>
    /\ UNCHANGED <<pd_vars, fc_vars>>

\* skyline.rs:135: iter::once(vec![]) yields the leading empty column
DeliverSeed ==
    /\ pc = "pull"
    /\ ~seeded
    /\ seeded' = TRUE
    /\ Deliver(<< >>)
    /\ origin' = IF Len(U) < recorded THEN Append(origin, <<-1, 0, FALSE>>) ELSE origin
    /\ UNCHANGED <<prefetch, height_range, width_range, max_windows,
                   min_window_distance, previous_height, height, building, columns,
                   recorded, nbuilt, prior_height, prior_width>>
    /\ UNCHANGED <<pd_vars, fc_vars>>

\* DeliverColumn losing the column after the one it yields.
DeliverColumnSkipping ==
    /\ pc = "pull"
    /\ seeded
    /\ columns # << >>
    /\ columns' = IF Len(columns) >= 2 THEN Tail(Tail(columns)) ELSE Tail(columns)
    /\ Deliver(Head(columns))
    /\ origin' = IF Len(U) < recorded
                 THEN Append(origin, <<building.width - Len(columns), building.width,
                                       prior_width > 0>>)
                 ELSE origin
    /\ UNCHANGED <<prefetch, height_range, width_range, max_windows,
                   min_window_distance, previous_height, height, building, seeded,
                   recorded, nbuilt, prior_height, prior_width>>
    /\ UNCHANGED <<pd_vars, fc_vars>>

\* skyline.rs:143-144: flatten yields the next column of the current building
DeliverColumn ==
    /\ pc = "pull"
    /\ seeded
    /\ columns # << >>
    /\ columns' = Tail(columns)
    /\ Deliver(Head(columns))
    /\ origin' = IF Len(U) < recorded
                 THEN Append(origin, <<building.width - Len(columns), building.width,
                                       prior_width > 0>>)
                 ELSE origin
    /\ UNCHANGED <<prefetch, height_range, width_range, max_windows,
                   min_window_distance, previous_height, height, building, seeded,
                   recorded, nbuilt, prior_height, prior_width>>
    /\ UNCHANGED <<pd_vars, fc_vars>>

\* GenHeight drawing any height of the range, equal to the previous one or not.
GenHeightAnyDraw ==
    /\ pc = "pull"
    /\ seeded
    /\ columns = << >>
    /\ \E h \in RangeValues(height_range) :
          /\ previous_height' = h
          /\ height' = h
          /\ pc' = "width"
    /\ UNCHANGED <<constructed, prefetch, height_range, width_range, max_windows,
                   min_window_distance, building, columns, seeded, last, recorded,
                   U, emitted, out, origin, nbuilt, prior_height,
                   prior_width>>
    /\ UNCHANGED <<pd_vars, fc_vars>>

\* skyline.rs:111-117: flatten has no column left and calls
\* RandomBuildingGenerator::next; one iteration of its loop
GenHeight ==
    /\ pc = "pull"
    /\ seeded
    /\ columns = << >>
    /\ \E h \in RangeValues(height_range) :
          IF h # previous_height
          THEN /\ previous_height' = h
               /\ height' = h
               /\ pc' = "width"
          ELSE UNCHANGED <<previous_height, height, pc>>
    /\ UNCHANGED <<constructed, prefetch, height_range, width_range, max_windows,
                   min_window_distance, building, columns, seeded, last, recorded,
                   U, emitted, out, origin, nbuilt, prior_height,
                   prior_width>>
    /\ UNCHANGED <<pd_vars, fc_vars>>

\* skyline.rs:121-125, 143: Building::new(h, w, ws), and flatten takes its columns
Built(h, w, ws) ==
    LET b == [height |-> h, width |-> w, windows |-> ws]
    IN  /\ building' = b
        /\ columns' = IterColumns(b)
        /\ prior_height' = IF nbuilt = 0 THEN -1 ELSE building.height
        /\ prior_width' = IF nbuilt = 0 THEN -1 ELSE building.width
        /\ nbuilt' = IF nbuilt < 2 THEN nbuilt + 1 ELSE nbuilt
        /\ height' = 0
        /\ pc' = "pull"

\* skyline.rs:119, 90-100: the width is drawn and gen_windows is entered: no
\* window for a small building, else the call of sample_poisson_disc_2d
GenWidth ==
    /\ pc = "width"
    /\ \E w \in RangeValues(width_range) :
          IF w < 5 \/ height < 4
          THEN /\ Built(height, w, << >>)
               /\ UNCHANGED pd_vars
          ELSE /\ pc' = "windows"
               /\ pd_pc' = "call"
               /\ min_distance' = min_window_distance
               /\ pd_width' = w - 4
               /\ pd_height' = height - 3
               /\ samples' = << >>
               /\ active_list' = << >>
               /\ center_index' = 0
               /\ tries' = 0
               /\ verdict' = "none"
               /\ truncated' = FALSE
               /\ UNCHANGED <<height, building, columns, nbuilt, prior_height,
                              prior_width>>
    /\ UNCHANGED <<constructed, prefetch, height_range, width_range, max_windows,
                   min_window_distance, previous_height, seeded, last, recorded, U,
                   emitted, out, origin>>
    /\ UNCHANGED fc_vars

\* skyline.rs:101-103, 121-125: sample_poisson_disc_2d has returned; the windows
\* are max_windows of its samples at most, moved by (2, 2)
GenWindows ==
    /\ pc = "windows"
    /\ pd_pc = "returned"
    /\ \E pick \in ChooseMultiple(Len(samples), max_windows) :
          Built(height, pd_width + 4,
                [i \in 1..Len(pick) |-> Shift(samples[pick[i]])])
    /\ pd_pc' = "idle"
    /\ UNCHANGED <<min_distance, pd_width, pd_height, samples, active_list,
                   center_index, tries, verdict, truncated>>
    /\ UNCHANGED <<constructed, prefetch, height_range, width_range, max_windows,
                   min_window_distance, previous_height, seeded, last, recorded, U,
                   emitted, out, origin>>
    /\ UNCHANGED fc_vars

\* util.rs:31-33 under skyline.rs:95: the sampler's assert unwinds through next()
GenWindowsPanic ==
    /\ pc = "windows"
    /\ pd_pc = "panic"
    /\ pc' = "panic"
    /\ pd_pc' = "idle"
    /\ UNCHANGED <<min_distance, pd_width, pd_height, samples, active_list,
                   center_index, tries, verdict, truncated>>
    /\ UNCHANGED <<constructed, prefetch, height_range, width_range, max_windows,
                   min_window_distance, previous_height, height, building, columns,
                   seeded, last, recorded, U, emitted, out, origin, nbuilt, prior_height,
                   prior_width>>
    /\ UNCHANGED fc_vars

SkyIdle ==
    /\ constructed = FALSE
    /\ previous_height = -1
    /\ height = 0
    /\ building = NoBuilding
    /\ columns = << >>
    /\ seeded = FALSE
    /\ last = << >>
    /\ U = << >>
    /\ emitted = {}
    /\ out = << >>
    /\ nbuilt = 0
    /\ prior_height = -1
    /\ prior_width = -1
    /\ origin = << >>

\* ---------------------------------------------------------- specifications
PDUnused ==
    /\ pd_pc = "idle"
    /\ min_distance = 0
    /\ pd_width = 0
    /\ pd_height = 0
    /\ PDIdle

FCUnused ==
    /\ fc_pc = "idle"
    /\ center = <<0, 0>>
    /\ radius = 0
    /\ FCIdle

SkyUnused ==
    /\ pc = "none"
    /\ prefetch = FALSE
    /\ height_range = <<0, 0>>
    /\ width_range = <<0, 0>>
    /\ max_windows = 0
    /\ min_window_distance = 0
    /\ recorded = 0
    /\ SkyIdle

InitPDFrom(params) ==
    /\ FCUnused
    /\ SkyUnused
    /\ pd_pc = "call"
    /\ \E p \in params :
         /\ min_distance = p[1]
         /\ pd_width = p[2]
         /\ pd_height = p[3]
    /\ PDIdle

InitPD == InitPDFrom(PDParams)

NextPD ==
    \/ PDEnter
    \/ PickCenter
    \/ Attempt
    \/ Exhausted
    \/ PDReturn

SpecPD == InitPD /\ [][NextPD]_vars

\* Termination is checked on the domains of at most LiveArea cells.
InitPDLive == InitPDFrom({ p \in SmallParams : p[2] * p[3] <= LiveArea })

FairSpecPD == InitPDLive /\ [][NextPD]_vars /\ WF_vars(NextPD)

InitFC ==
    /\ PDUnused
    /\ SkyUnused
    /\ fc_pc = "call"
    /\ center \in Centers
    /\ radius \in Radii
    /\ FCIdle

NextFC ==
    \/ FCEnter
    \/ FCStep

SpecFC == InitFC /\ [][NextFC]_vars

InitFrom(configs, rec) ==
    /\ PDUnused
    /\ FCUnused
    /\ pc = "new"
    /\ prefetch \in BOOLEAN
    /\ \E c \in configs :
         /\ height_range = c[1]
         /\ width_range = c[2]
         /\ max_windows = c[3]
         /\ min_window_distance = c[4]
    /\ recorded = rec
    /\ SkyIdle

Init == InitFrom(SkyConfigs, MaxU)

\* What the stream does by itself, the consumer's pulls apart.
NextStream ==
    \/ Construct
    \/ DeliverSeed
    \/ DeliverColumn
    \/ GenHeight
    \/ GenWidth
    \/ GenWindows
    \/ GenWindowsPanic
    \/ PDEnter
    \/ PickCenter
    \/ Attempt
    \/ Exhausted
    \/ PDReturn

Next ==
    \/ Pull
    \/ Construct
    \/ DeliverSeed
    \/ DeliverColumn
    \/ GenHeight
    \/ GenWidth
    \/ GenWindows
    \/ GenWindowsPanic
    \/ PDEnter
    \/ PickCenter
    \/ Attempt
    \/ Exhausted
    \/ PDReturn

Spec == Init /\ [][Next]_vars

\* Liveness is checked without the history: the stream alone is finite-state.
InitLive == InitFrom(SkyConfigs, 0)

\* A call, once entered, runs on: every step of the stream is taken if it stays
\* possible. The consumer is free to stop pulling.
FairSpec == InitLive /\ [][Next]_vars /\ WF_vars(NextStream)

\* ------------------------------------------------------------------ claims

\* The squared distance of two samples is at least md^2, in exact arithmetic.
ExactlyFar(p, q, md) ==
    ~BigLess(SumSq(Abs(p[1] - q[1]), Abs(p[2] - q[2])), SumSq(md, 0))

InDomain(p) == 0 <= p[1] /\ p[1] < pd_width /\ 0 <= p[2] /\ p[2] < pd_height

RangeRejections == {"overflow", "negative", "outside"}

\* C7: at every step of sample_poisson_disc_2d, every two distinct entries of
\* the sample list are at squared integer distance >= min_distance^2.
C7_PairwiseDistance ==
    \A i \in 1..Len(samples) : \A j \in 1..Len(samples) :
        i < j => ExactlyFar(samples[i], samples[j], min_distance)

\* C8: every point in the sample list lies in [0, width) x [0, height); after a
\* candidate that overflowed, was negative or lay beyond the domain the round is
\* still under way with the candidate counted, and the call panics only on entry.
C8_SamplesInDomain ==
    /\ \A i \in 1..Len(samples) : InDomain(samples[i])
    /\ verdict \in RangeRejections \cup {"too_close"} => pd_pc = "try" /\ tries >= 1
    /\ pd_pc = "panic" => samples = << >>

\* C8 witness: a candidate whose signed addition overflowed has been rejected,
\* next to a sample list that has grown.
C8_Witness ==
    /\ verdict = "overflow"
    /\ pd_pc = "try"
    /\ Len(samples) >= 2

\* C9: a call on a non-empty domain with an accepted min_distance returns.
C9_Terminates ==
    (EntryAsserts(min_distance, pd_width, pd_height) /\ pd_width >= 1 /\ pd_height >= 1)
        => <>(pd_pc = "returned")

\* The same for min_distance >= 1.
TerminatesFromOne ==
    (EntryAsserts(min_distance, pd_width, pd_height) /\ pd_width >= 1 /\ pd_height >= 1
        /\ min_distance >= 1)
        => <>(pd_pc = "returned")

\* The sample list outgrows the model's capacity only for min_distance = 0.
TruncatedOnlyAtZero == truncated => min_distance = 0

\* C7 below the width where f64 rounds: min_distance <= 2^26.
PairwiseDistanceSmall == min_distance <= 67108864 => C7_PairwiseDistance

\* The lattice points strictly inside the circle: those of the bounding square
\* (any point outside it is farther than the radius) with dx^2 + dy^2 < radius^2.
StrictlyInside ==
    { <<center[1] + d[1], center[2] + d[2]>> :
        d \in { e \in ((-radius)..radius) \X ((-radius)..radius) :
                  e[1] * e[1] + e[2] * e[2] < radius * radius } }

\* C10: once filled_circle is drained, the points it yielded are exactly the
\* lattice points with (x-cx)^2 + (y-cy)^2 < r^2, each once; none lies on the
\* boundary, and radius 0 yields none.
C10_FilledCircle ==
    fc_pc = "done" =>
        /\ { yielded[i] : i \in 1..Len(yielded) } = StrictlyInside
        /\ Cardinality(StrictlyInside) = Len(yielded)
        /\ \A i \in 1..Len(yielded) :
             LET dx == yielded[i][1] - center[1]
                 dy == yielded[i][2] - center[2]
             IN  dx * dx + dy * dy # radius * radius
        /\ radius = 0 => yielded = << >>

\* C10 witness: a drained circle of radius 3 off the origin, whose bounding
\* square holds boundary points ((+-3, 0), (0, +-3)) and outside points.
C10_Witness ==
    /\ fc_pc = "done"
    /\ radius = 3
    /\ center = <<20, 20>>
    /\ Len(yielded) = 25
\* ------------------------------------------------------- claims on skyline()
\* The elements of seq at the indices idx, in order.
Picked(seq, idx) ==
    LET F[i \in 0..Len(seq)] ==
            IF i = 0 THEN << >>
            ELSE IF i \in idx THEN Append(F[i - 1], seq[i])
            ELSE F[i - 1]
    IN  F[Len(seq)]

AtLeastNeighbours(i) ==
    Len(U[i]) >= Len(U[i - 1]) /\ Len(U[i]) >= Len(U[i + 1])

\* C1: U starts with one empty column; for every three consecutive elements
\* (previous, current, next) of U, current is emitted if and only if it is at
\* least as long as previous and as next; the output is the emitted elements of
\* U in order, with nothing in the place of a dropped one.
C1_WindowFilter ==
    /\ U # << >> => U[1] = << >>
    /\ emitted \subseteq 2..(Len(U) - 1)
    /\ \A i \in 2..(Len(U) - 1) : (i \in emitted) <=> AtLeastNeighbours(i)
    /\ out = Picked(U, emitted)

C1_Witness ==
    /\ Len(U) = MaxU
    /\ \E i \in 2..(Len(U) - 1) : \E j \in 2..(Len(U) - 1) :
          /\ i \in emitted
          /\ j \notin emitted
          /\ Len(U[j]) >= Len(U[j - 1])

\* C2, as stated: in every three consecutive emitted columns the middle one is
\* not strictly shorter than both the one before and the one after it.
C2_NoDipInOutput ==
    \A k \in 2..(Len(out) - 1) :
        ~(Len(out[k]) < Len(out[k - 1]) /\ Len(out[k]) < Len(out[k + 1]))

\* C2, amended: every emitted column is at least as long as the columns of U
\* immediately before and after it.
C2_NoDipInUnderlying ==
    \A i \in emitted : 1 < i /\ i < Len(U) /\ AtLeastNeighbours(i)

C2_Witness ==
    /\ Len(out) = 3
    /\ Len(out[2]) < Len(out[1])
    /\ Len(out[2]) < Len(out[3])
    /\ emitted = {2, 4, 6}

\* C3: once skyline() has returned, every pull eventually returns a column or
\* fails; it does not go on forever.
C3_PullReturns == (constructed /\ pc = "pull") ~> (pc = "idle" \/ pc = "panic")

\* C4: an error is raised only while skyline() is being constructed, never by a
\* pull after construction has returned.
C4_ErrorsOnlyAtConstruction == pc = "panic" => ~constructed

\* C5: with a height range of fewer than 2 values or an empty width range,
\* skyline() fails before it returns and no column is ever produced.
C5_BadRangesFail ==
    (\/ height_range[2] - height_range[1] < 2
     \/ RangeIsEmpty(width_range))
    => /\ pc \in {"new", "panic"}
       /\ ~constructed
       /\ nbuilt = 0
       /\ U = << >>
       /\ out = << >>

C5_Witness ==
    /\ pc = "panic"
    /\ ~constructed
    /\ height_range = <<2, 3>>

\* C6: between the calls of RandomBuildingGenerator::next, previous_height is
\* the height of the building generated last (0 before the first); every
\* generated height is in the height range, the first one is not 0, and no two
\* buildings generated in a row have the same height.
C6_NoRepeatedHeight ==
    pc \in {"idle", "pull"} =>
        /\ previous_height = (IF nbuilt = 0 THEN 0 ELSE building.height)
        /\ nbuilt >= 1 => building.height \in RangeValues(height_range)
        /\ nbuilt = 1 => building.height # 0
        /\ nbuilt >= 2 => building.height # prior_height

C6_Witness ==
    /\ pc = "pull"
    /\ nbuilt = 2
    /\ height_range = <<0, 3>>
    /\ prior_height = 2
    /\ building.height = 1
    /\ previous_height = 1

\* ------------------------------------------- claims on the buildings
HasWindow(b, x, y) == \E i \in 1..Len(b.windows) : b.windows[i] = <<x, y>>

\* The column c is what C11 says column `col` of the building b is.
ColumnAsClaimed(b, col, c) ==
    IF b.height = 0 THEN c = << >>
    ELSE /\ Len(c) = b.height
         /\ IF col = 0 \/ col = b.width - 1
            THEN \A y \in 0..(b.height - 1) : c[y + 1] = "Border"
            ELSE /\ c[1] = "Border"
                 /\ \A y \in 1..(b.height - 1) :
                      c[y + 1] = IF HasWindow(b, col, y) THEN "Window" ELSE "Background"

\* C11: the columns of a building are yielded left to right, width of them: the
\* column yielded last and the columns still to be yielded are the columns of
\* consecutive indices up to width - 1. A column is empty if height is 0; else
\* it has height pixels, all Border in columns 0 and width - 1, and in an
\* interior column Border at row 0 and below it Window where the building has a
\* window and Background elsewhere.
C11_IterColumns ==
    /\ Len(columns) <= building.width
    /\ \A k \in 1..Len(columns) :
         ColumnAsClaimed(building, building.width - Len(columns) + k - 1, columns[k])
    /\ (Len(columns) < building.width /\ last # << >>)
       => ColumnAsClaimed(building, building.width - Len(columns) - 1, last[Len(last)])

C11_Witness ==
    /\ building.height = 5
    /\ building.width = 5
    /\ building.windows = <<<<2, 2>>>>
    /\ Len(columns) = 2
    /\ last[Len(last)] = <<"Border", "Background", "Window", "Background", "Background">>

\* C12: every window (x, y) of a generated building has 0 < x < width - 1 and
\* 0 < y < height: no column is indexed out of bounds and no pixel of the edge
\* columns or of the roof is a Window.
C12_WindowsInside ==
    /\ \A i \in 1..Len(building.windows) :
         /\ 0 < building.windows[i][1]
         /\ building.windows[i][1] < building.width - 1
         /\ 0 < building.windows[i][2]
         /\ building.windows[i][2] < building.height
    /\ \A col \in 0..(building.width - 1) :
         /\ ~ColumnPanics(building, col)
         /\ building.height > 0 => IterColumns(building)[col + 1][1] = "Border"
    /\ \A k \in 1..Len(columns) :
         (k = Len(columns) \/ Len(columns) - k = building.width - 1)
         => \A y \in 1..Len(columns[k]) : columns[k][y] = "Border"

C12_Witness ==
    /\ pc = "pull"
    /\ building.height = 5
    /\ building.width = 5
    /\ building.windows = <<<<2, 3>>>>
    /\ samples = <<<<0, 0>>, <<0, 1>>>>
    /\ Len(columns) = 5

Min(a, b) == IF a < b THEN a ELSE b

\* C13: a generated building has no window when width < 5 or height < 4;
\* otherwise it has min(max_windows, number of samples) windows, the samples
\* being those of the (width - 4) x (height - 3) rectangle, and the windows are
\* distinct samples moved by (+2, +2).
C13_WindowCount ==
    (pc \in {"idle", "pull"} /\ nbuilt >= 1) =>
        IF building.width < 5 \/ building.height < 4
        THEN building.windows = << >>
        ELSE /\ pd_width = building.width - 4
             /\ pd_height = building.height - 3
             /\ Len(building.windows) = Min(max_windows, Len(samples))
             /\ Len(building.windows) <= max_windows
             /\ \A i \in 1..Len(building.windows) :
                  /\ \E j \in 1..Len(samples) :
                       building.windows[i] = <<samples[j][1] + 2, samples[j][2] + 2>>
                  /\ \A k \in 1..Len(building.windows) :
                       i # k => building.windows[i] # building.windows[k]

C13_Witness ==
    /\ pc = "pull"
    /\ max_windows = 1
    /\ samples = <<<<0, 1>>, <<0, 0>>>>
    /\ building.windows = <<<<2, 2>>>>
    /\ building.width = 5

\* ------------------------------------------- claims on the filtered stream
\* C15: the leading empty column is the first element of U and is never
\* emitted; the first column of the first building, which follows it, is
\* emitted exactly if it is at least as long as the column after it.
C15_SeedColumn ==
    /\ 1 \notin emitted
    /\ Len(U) >= 1 => (U[1] = << >> /\ origin[1][1] = -1)
    /\ \A i \in 2..Len(U) : origin[i][1] >= 0
    /\ Len(U) >= 2 => origin[2][1] = 0
    /\ Len(U) >= 3 => ((2 \in emitted) <=> Len(U[2]) >= Len(U[3]))

C15_Witness ==
    /\ Len(U) >= 4
    /\ Len(U[2]) < Len(U[3])
    /\ 2 \notin emitted
    /\ 3 \in emitted
    /\ pc = "idle"

\* The columns a..b of U are all the columns of one building.
WholeBuilding(a, b) ==
    /\ 2 <= a
    /\ a <= b
    /\ b <= Len(U)
    /\ origin[a][2] = b - a + 1
    /\ \A k \in a..b : origin[k][1] = k - a /\ origin[k][2] = origin[a][2]

\* A building lower than the column before it and than the column after it.
Sunk(a, b) ==
    /\ WholeBuilding(a, b)
    /\ b < Len(U)
    /\ Len(U[a]) < Len(U[a - 1])
    /\ Len(U[a]) < Len(U[b + 1])

\* C16, as stated: no column of a building lower than the column before it and
\* than the column after it is emitted, whatever its width.
C16_SunkBuildingDropped ==
    \A a \in 2..Len(U) : \A b \in a..Len(U) :
        Sunk(a, b) => \A k \in a..b : k \notin emitted

\* C16, amended: of such a building the first and the last column are not
\* emitted, and every column between them is.
C16_SunkBuildingEdgesDropped ==
    \A a \in 2..Len(U) : \A b \in a..Len(U) :
        Sunk(a, b) => /\ a \notin emitted
                      /\ b \notin emitted
                      /\ \A k \in (a + 1)..(b - 1) : k \in emitted

C16_Witness ==
    /\ Len(U) = 6
    /\ Sunk(3, 5)
    /\ emitted = {2, 4}
    /\ Len(out) = 2
    /\ Len(out[2]) = 1

\* After the leading column, U holds the columns of each building once, in
\* order: column 0, 1, .. width - 1, then column 0 of a later building.
OriginWellFormed ==
    \A k \in 2..Len(U) :
        /\ origin[k][1] < origin[k][2]
        /\ IF origin[k - 1][1] + 1 = origin[k - 1][2]
           THEN origin[k][1] = 0
           ELSE origin[k] = <<origin[k - 1][1] + 1, origin[k - 1][2], origin[k - 1][3]>>

\* C17: every step leaves U as it is or appends one column to it, each
\* building's columns once and in order; the only column a step can emit is the
\* one that was the newest of U before the step, and it is appended to the
\* output as it is; a column once passed over is never emitted later and
\* nothing else is ever put in the output.
C17_Subsequence ==
    [][ /\ \/ U' = U
           \/ Len(U') = Len(U) + 1 /\ SubSeq(U', 1, Len(U)) = U
        /\ OriginWellFormed'
        /\ emitted \subseteq emitted'
        /\ emitted' \ emitted \subseteq {Len(U)}
        /\ emitted' # emitted => U' # U
        /\ out' = IF emitted' = emitted THEN out ELSE Append(out, U[Len(U)]) ]_vars

C17_Witness ==
    /\ Len(U) = MaxU
    /\ emitted = {2, 4, 5}
    /\ out = <<U[2], U[4], U[5]>>
    /\ Len(U[3]) < Len(U[2])

\* U[k] is the last column of a building of width >= 2 and U[k + 1] the first
\* column of the building generated next, of width >= 2 too.
Boundary(k) ==
    /\ 2 <= k
    /\ k + 1 < Len(U)
    /\ origin[k][2] >= 2
    /\ origin[k][1] + 1 = origin[k][2]
    /\ origin[k + 1][1] = 0
    /\ origin[k + 1][2] >= 2
    /\ origin[k + 1][3]

\* C18: where two buildings generated one after the other, both of width >= 2,
\* meet, the two adjoining columns differ in length and exactly the longer one
\* is emitted.
C18_BoundaryColumns ==
    \A k \in 2..Len(U) :
        Boundary(k) => /\ Len(U[k]) # Len(U[k + 1])
                       /\ (k \in emitted) <=> (Len(U[k]) > Len(U[k + 1]))
                       /\ (k + 1 \in emitted) <=> (Len(U[k + 1]) > Len(U[k]))

C18_Witness ==
    /\ Len(U) = 6
    /\ Boundary(3)
    /\ Len(U[3]) = 2
    /\ Len(U[4]) = 1
    /\ 3 \in emitted
    /\ 4 \notin emitted

\* ------------------------------------- claims on the sampler's two lists
ActiveSet(al) == { al[i] : i \in 1..Len(al) }

\* C19: in every step of the sampler's loop the sample list keeps its elements
\* in place and the active list holds distinct indices of samples. A step that
\* accepts a candidate appends one point to the samples and its index to the
\* active list, the center staying active; the active list loses an element
\* only after 30 rejected candidates of one round, and then exactly the center,
\* which stays a sample; any other step changes neither list. (A run that
\* filled the modelled sample list is left out.)
C19_Worklist ==
    [][ (pd_pc \in {"loop", "try"} /\ ~truncated') =>
          /\ Len(samples') >= Len(samples)
          /\ SubSeq(samples', 1, Len(samples)) = samples
          /\ \A i \in 1..Len(active_list') :
               /\ active_list'[i] \in 0..(Len(samples') - 1)
               /\ \A j \in 1..Len(active_list') :
                    i # j => active_list'[i] # active_list'[j]
          /\ IF pd_pc = "try" /\ verdict' = "accepted"
             THEN /\ Len(samples') = Len(samples) + 1
                  /\ active_list' = Append(active_list, Len(samples))
                  /\ active_list[center_index + 1] \in ActiveSet(active_list')
             ELSE IF active_list' # active_list
             THEN /\ pd_pc = "try"
                  /\ tries = MAX_TEST_SAMPLES
                  /\ verdict # "accepted"
                  /\ samples' = samples
                  /\ Len(active_list') = Len(active_list) - 1
                  /\ ActiveSet(active_list')
                       = ActiveSet(active_list) \ {active_list[center_index + 1]}
             ELSE samples' = samples ]_vars

C19_Witness ==
    /\ pd_pc = "loop"
    /\ Len(samples) = 3
    /\ active_list = <<2, 1>>
    /\ ~truncated

====
